---- MODULE Spec2Model ----
(***************************************************************************)
(* Step-progression state machine of MIDI-8-SEQUENCER-V1.02               *)
(* (src/MIDI-8-SEQUENCER-V1.02.ino).                                       *)
(*                                                                         *)
(* loop() runs MIDI.read(), which dispatches at most one of the three      *)
(* callbacks message_clock / message_start / message_stop, and then polls  *)
(* the button.  Everything runs on one thread, so each callback and the    *)
(* button poll is one atomic action; a loop() iteration is a callback      *)
(* action followed by a poll action.                                       *)
(***************************************************************************)
EXTENDS Integers, Sequences, FiniteSets

\* ------------------------------------------------------------------ bounds
\* Ticks are only delivered while clock_counter is below this value.
MaxTicks == 15
\* Longest recorded run of gated steps after a Start.
MaxLog == 15
\* Ticks before and after the wraparound of clock_counter in SpecWrap.
WrapLead == 8
WrapTail == 8

\* --------------------------------------------------------- program constants
NUM_OF_LEDS == 8
NUM_OF_CLOCK_DIVISIONS == 5
clock_division == <<1, 3, 6, 12, 24>>
\* Width of int on the ATmega328 (Arduino Nano).
IntBits == 16
AnalogMax == 1023

HIGH == TRUE
LOW == FALSE

\* Analog readings offered to a tick: for the step pot one reading for each
\* step count 1..8, for the clock pot one reading for each divisor.
StepPotReadings == {0, 147, 293, 439, 585, 731, 877, 1023}
ClockPotReadings == {0, 256, 512, 768, 1023}

VARIABLES
    clock_counter,       \* int clock_counter
    step_counter,        \* int step_counter
    play_mode,           \* int play_mode: 0 Forward, 1 Reverse, 2 Ping-Pong, 3 Random
    is_playing,          \* bool is_playing
    pingpong_direction,  \* bool pingpong_direction (TRUE = increasing)
    lastButtonState,     \* static bool lastButtonState in loop()
    led,                 \* level of PIN_LED[0..7]
    led13,               \* level of the built-in LED, pin 13
    step_pot_mapped,     \* step count read by the latest tick (0: no tick yet)
    last_op,             \* what the latest handler did
    run,                 \* gated steps since the latest Start, see RunAfter
    reading,             \* SpecAnalog: an analog reading and what it maps to
    orbit                \* SpecOrbit: steps active since the initial state

vars == <<clock_counter, step_counter, play_mode, is_playing,
          pingpong_direction, lastButtonState, led, led13,
          step_pot_mapped, last_op, run, reading, orbit>>

\* ------------------------------------------------------------- C arithmetic
\* C division and remainder truncate towards zero (b > 0 here).
CDiv(a, b) == IF a >= 0 THEN a \div b ELSE -((-a) \div b)
CMod(a, b) == a - b * CDiv(a, b)

\* Value of a signed IntBits-wide int after the hardware's two's complement
\* wraparound.
WrapInt(x) ==
    LET m == 2 ^ IntBits
        r == x % m
    IN IF r >= m \div 2 THEN r - m ELSE r

MaxInt == 2 ^ (IntBits - 1) - 1
MinInt == -(2 ^ (IntBits - 1))

\* Arduino core: long map(long x, long in_min, long in_max, long out_min, long out_max)
map(x, in_min, in_max, out_min, out_max) ==
    CDiv((x - in_min) * (out_max - out_min), in_max - in_min) + out_min

\* Arduino core: constrain(amt, low, high)
constrain(amt, low, high) ==
    IF amt < low THEN low ELSE IF amt > high THEN high ELSE amt

random_Inclusive(howsmall, howbig) ==
    IF howsmall >= howbig THEN {howsmall} ELSE howsmall .. howbig

\* Arduino core: long random(long howsmall, long howbig): the possible results
random(howsmall, howbig) ==
    IF howsmall >= howbig THEN {howsmall} ELSE howsmall .. (howbig - 1)

\* ------------------------------------------------------------ the tick gate
\* int step_pot_mapped = map(step_pot_value, 0, 1023, 1, NUM_OF_LEDS)
StepPotMapped(step_pot_value) ==
    map(step_pot_value, 0, AnalogMax, 1, NUM_OF_LEDS)

\* int clock_pot_selected = clock_division[clock_pot_mapped], the index
\* mapped from the reading (the TLA+ tuple is indexed from 1)
ClockPotMapped_NotInverted(clock_pot_value) ==
    map(clock_pot_value, 0, AnalogMax, 0, NUM_OF_CLOCK_DIVISIONS - 1)

\* int clock_pot_mapped = map(clock_pot_value, 0, 1023, NUM_OF_CLOCK_DIVISIONS - 1, 0)
ClockPotMapped(clock_pot_value) ==
    map(clock_pot_value, 0, AnalogMax, NUM_OF_CLOCK_DIVISIONS - 1, 0)

ClockPotSelected(clock_pot_value) ==
    clock_division[ClockPotMapped(clock_pot_value) + 1]

should_advance_Late(counter, divisor) == CMod(counter, divisor) = divisor - 1

should_advance_shifted(counter, divisor) == CMod(counter + 1, divisor) = 0

\* if (clock_counter % clock_pot_selected == 0)
should_advance(counter, divisor) == CMod(counter, divisor) = 0

\* --------------------------------------------------------- traversal engine
ReverseStep_NoBias(s, n) == CMod(s - 1, n)

ReverseStep_Hold(s, n) == CMod(s + n, n)

\* case 1: step_counter = (step_counter - 1 + step_pot_mapped) % step_pot_mapped
ReverseStep(s, n) == CMod(s - 1 + n, n)

ForwardStep_FixedCount(s, n) == CMod(s + 1, NUM_OF_LEDS)

ForwardStep_NoWrap(s, n) == s + 1

\* default: step_counter = (step_counter + 1) % step_pot_mapped
ForwardStep(s, n) == CMod(s + 1, n)

PingPongStep_NoClamp(s, dir, n) ==
    LET moved == s + (IF dir THEN 1 ELSE -1)
        flip == moved >= n - 1 \/ moved <= 0
    IN [step |-> moved, dir |-> IF flip THEN ~dir ELSE dir]

PingPongStep_NoFlip(s, dir, n) ==
    LET moved == s + (IF dir THEN 1 ELSE -1)
    IN [step |-> constrain(moved, 0, n - 1), dir |-> dir]

PingPongStep_LateFlip(s, dir, n) ==
    LET moved == s + (IF dir THEN 1 ELSE -1)
        flip == moved > n - 1 \/ moved < 0
    IN [step |-> constrain(moved, 0, n - 1),
        dir |-> IF flip THEN ~dir ELSE dir]

\* case 2: move one step, flip the direction at or beyond either end, clamp
PingPongStep(s, dir, n) ==
    LET moved == s + (IF dir THEN 1 ELSE -1)
        flip == moved >= n - 1 \/ moved <= 0
    IN [step |-> constrain(moved, 0, n - 1),
        dir |-> IF flip THEN ~dir ELSE dir]

\* The switch on play_mode: the possible (step, direction) results.
Traverse(mode, s, dir, n) ==
    CASE mode = 1 -> {[step |-> ReverseStep(s, n), dir |-> dir]}
      [] mode = 2 -> {PingPongStep(s, dir, n)}
      [] mode = 3 -> {[step |-> r, dir |-> dir] : r \in random(0, n)}
      [] OTHER -> {[step |-> ForwardStep(s, n), dir |-> dir]}

\* ------------------------------------------------------ manual input handler
PressEdge_Level(last, now) == now = LOW

\* if (lastButtonState != buttonState && buttonState == LOW)
PressEdge(last, now) == last # now /\ now = LOW

NextMode_Three(mode) == (mode + 1) % 3

\* play_mode = (play_mode + 1) % 4
NextMode(mode) == CMod(mode + 1, 4)

ManualStep_Short(s) == CMod(s + 1, NUM_OF_LEDS - 1)

ManualStep_WrapLate(s) == CMod(s + 1, NUM_OF_LEDS + 1)

\* step_counter = (step_counter + 1) % NUM_OF_LEDS
ManualStep(s) == CMod(s + 1, NUM_OF_LEDS)

\* ----------------------------------------------------------- output notifier
AllLedsLow == [i \in 0 .. (NUM_OF_LEDS - 1) |-> LOW]

light_up_current_step_NoClear(s) ==
    [led |-> [i \in 0 .. (NUM_OF_LEDS - 1) |->
                 IF i = s THEN HIGH ELSE led[i]],
     led13 |-> LOW]

\* light_up_current_step(): levels of the step LEDs and of pin 13 on return
light_up_current_step(s) ==
    [led |-> [i \in 0 .. (NUM_OF_LEDS - 1) |-> IF i = s THEN HIGH ELSE LOW],
     led13 |-> LOW]

\* --------------------------------------------------------------- run record
\* The record of a run: the steps produced by the gated ticks that followed
\* the latest Start, as long as the mode is not Random, the step count read
\* is the same at every one of them, and no press or Stop came in between.
ClosedRun == [open |-> FALSE, n |-> 0, steps |-> <<>>]
FreshRun == [open |-> TRUE, n |-> 0, steps |-> <<>>]

RunAfter(r, mode, n, s) ==
    IF /\ r.open
       /\ mode # 3
       /\ r.n \in {0, n}
       /\ Len(r.steps) < MaxLog
    THEN [open |-> TRUE, n |-> n, steps |-> Append(r.steps, s)]
    ELSE ClosedRun

\* The two observers below belong to SpecAnalog and SpecOrbit; the handlers
\* do not touch them.
NoReading == [pin |-> "none", value |-> 0, mapped |-> 0]
NoOrbit == [n |-> 0, seen |-> {}]
Unobserved == UNCHANGED <<reading, orbit>>

\* Ticks are delivered up to MaxTicks after a Start and, around the
\* wraparound of clock_counter, up to WrapTail past the lowest int.
TickDelivered(counter) == counter \notin {MaxTicks, MinInt + WrapTail}

\* ------------------------------------------------------------------- state
Init ==
    /\ clock_counter = 0
    /\ step_counter = 0
    /\ play_mode = 0
    /\ is_playing = FALSE
    /\ pingpong_direction = TRUE
    /\ lastButtonState = HIGH
    /\ led = AllLedsLow
    /\ led13 = LOW
    /\ step_pot_mapped = 0
    /\ last_op = "setup"
    /\ run = ClosedRun
    /\ reading = NoReading
    /\ orbit = NoOrbit

\* ----------------------------------------------------------------- handlers
message_clock(step_pot_value, clock_pot_value) ==
    LET spm == StepPotMapped(step_pot_value)
        sel == ClockPotSelected(clock_pot_value)
    IN /\ TickDelivered(clock_counter)
       /\ step_pot_mapped' = spm
       /\ IF should_advance(clock_counter, sel)
          THEN /\ IF is_playing
                  THEN /\ \E t \in Traverse(play_mode, step_counter,
                                            pingpong_direction, spm) :
                             /\ step_counter' = t.step
                             /\ pingpong_direction' = t.dir
                       /\ run' = RunAfter(run, play_mode, spm, step_counter')
                       /\ last_op' = "clock_advance"
                  ELSE /\ UNCHANGED <<step_counter, pingpong_direction, run>>
                       /\ last_op' = "clock_notify"
               /\ led' = light_up_current_step(step_counter').led
               /\ led13' = light_up_current_step(step_counter').led13
          ELSE /\ UNCHANGED <<step_counter, pingpong_direction, run, led, led13>>
               /\ last_op' = "clock_skip"
       /\ clock_counter' = WrapInt(clock_counter + 1)
       /\ UNCHANGED <<play_mode, is_playing, lastButtonState>>

message_start_KeepCounter ==
    /\ is_playing' = TRUE
    /\ step_counter' = 0
    /\ pingpong_direction' = TRUE
    /\ led' = light_up_current_step(step_counter').led
    /\ led13' = light_up_current_step(step_counter').led13
    /\ last_op' = "start"
    /\ run' = FreshRun
    /\ UNCHANGED <<clock_counter, play_mode, lastButtonState, step_pot_mapped>>

message_start ==
    /\ is_playing' = TRUE
    /\ step_counter' = 0
    /\ clock_counter' = 0
    /\ pingpong_direction' = TRUE
    /\ led' = light_up_current_step(step_counter').led
    /\ led13' = light_up_current_step(step_counter').led13
    /\ last_op' = "start"
    /\ run' = FreshRun
    /\ UNCHANGED <<play_mode, lastButtonState, step_pot_mapped>>

message_stop_KeepLeds ==
    /\ is_playing' = FALSE
    /\ last_op' = "stop"
    /\ run' = ClosedRun
    /\ UNCHANGED <<clock_counter, step_counter, play_mode, pingpong_direction,
                   lastButtonState, led, led13, step_pot_mapped>>

message_stop ==
    /\ is_playing' = FALSE
    /\ led' = AllLedsLow
    /\ last_op' = "stop"
    /\ run' = ClosedRun
    /\ UNCHANGED <<clock_counter, step_counter, play_mode, pingpong_direction,
                   lastButtonState, led13, step_pot_mapped>>

\* The button poll of loop(): buttonState is the level read from BUTTON_PIN
\* (INPUT_PULLUP: LOW while pressed).
loop(buttonState) ==
    /\ IF PressEdge(lastButtonState, buttonState)
       THEN /\ run' = ClosedRun
            /\ IF is_playing
               THEN /\ play_mode' = NextMode(play_mode)
                    /\ pingpong_direction' =
                           IF play_mode' = 2 THEN TRUE ELSE pingpong_direction
                    /\ last_op' = "press_mode"
                    /\ UNCHANGED <<step_counter, led, led13>>
               ELSE /\ step_counter' = ManualStep(step_counter)
                    /\ led' = light_up_current_step(step_counter').led
                    /\ led13' = light_up_current_step(step_counter').led13
                    /\ last_op' = "press_step"
                    /\ UNCHANGED <<play_mode, pingpong_direction>>
       ELSE /\ last_op' = "poll"
            /\ UNCHANGED <<step_counter, play_mode, pingpong_direction, led,
                           led13, run>>
    /\ lastButtonState' = buttonState
    /\ UNCHANGED <<clock_counter, is_playing, step_pot_mapped>>

Tick == \E sp \in StepPotReadings, cp \in ClockPotReadings : message_clock(sp, cp)
Poll == \E b \in BOOLEAN : loop(b)

Next ==
    \/ Tick /\ Unobserved
    \/ message_start /\ Unobserved
    \/ message_stop /\ Unobserved
    \/ Poll /\ Unobserved

Spec == Init /\ [][Next]_vars

TypeOK ==
    /\ clock_counter \in 0 .. MaxTicks
    /\ step_counter \in 0 .. (NUM_OF_LEDS - 1)
    /\ play_mode \in 0 .. 3
    /\ is_playing \in BOOLEAN
    /\ pingpong_direction \in BOOLEAN
    /\ lastButtonState \in BOOLEAN
    /\ led \in [0 .. (NUM_OF_LEDS - 1) -> BOOLEAN]
    /\ led13 \in BOOLEAN
    /\ step_pot_mapped \in 0 .. NUM_OF_LEDS
    /\ last_op \in {"setup", "start", "stop", "press_mode", "press_step",
                    "poll", "clock_advance", "clock_notify", "clock_skip"}
    /\ run.open \in BOOLEAN

\* ---------------------------------------------------------------- helpers
ClockOps == {"clock_advance", "clock_notify", "clock_skip"}
OnlyLed(s) == [i \in 0 .. (NUM_OF_LEDS - 1) |-> i = s]

\* The readings a tick can draw, by the step count and the divisor the
\* code maps them to.
ReadingsOfStepCount ==
    [n \in 1 .. NUM_OF_LEDS |->
        {v \in StepPotReadings : StepPotMapped(v) = n}]
DivisorOfReading == [cp \in ClockPotReadings |-> ClockPotSelected(cp)]

\* k-th value of the bounce 1,2,...,n-1,n-2,...,1,0,1,... (n >= 2)
Bounce(n, k) ==
    LET period == 2 * (n - 1)
        r == k % period
    IN IF r <= n - 1 THEN r ELSE period - r

\* ================================================================== claims

\* C1 (as stated): in every reachable state current_step is a valid index
\* into the active step range, 0 <= current_step < active_step_count, the
\* step count being the one sampled at the most recent tick.
C1_StepAlwaysInActiveRange ==
    step_pot_mapped # 0 =>
        (0 <= step_counter /\ step_counter < step_pot_mapped)

\* C1 (amended): current_step is always within the fixed hardware range
\* 0..7, and it is below the step count sampled at the most recent tick in
\* every state produced by a Start or by a tick that gated open while
\* running.
C1_StepInActiveRangeAfterAdvance ==
    /\ 0 <= step_counter /\ step_counter < NUM_OF_LEDS
    /\ (last_op \in {"clock_advance", "start"} /\ step_pot_mapped # 0)
           => step_counter < step_pot_mapped

C1_Witness ==
    /\ last_op = "clock_advance"
    /\ play_mode = 0
    /\ step_pot_mapped = 3
    /\ step_counter = 2

\* C2: a tick that gates open while running leaves current_step within
\* [0, n) for the step count n it read, whatever the mode and whatever the
\* step before it (also one at or above n).
C2_GatedTickStepInRange ==
    [][last_op' = "clock_advance" =>
          (0 <= step_counter' /\ step_counter' < step_pot_mapped')]_vars

\* Ping-Pong leaves the direction increasing at the upper end n-1 >= 1 only
\* when the step came down from at or above n: the step count had shrunk
\* below the step.
C2_Witness ==
    /\ last_op = "clock_advance"
    /\ play_mode = 2
    /\ step_pot_mapped >= 2
    /\ step_counter = step_pot_mapped - 1
    /\ pingpong_direction = TRUE

\* C3: a tick received while not running leaves current_step, every step
\* output and the pulse indicator unchanged and only increments
\* tick_counter.
C3_StoppedTickOnlyCounts ==
    [][(~is_playing /\ last_op' \in ClockOps) =>
          /\ step_counter' = step_counter
          /\ led' = led
          /\ led13' = led13
          /\ clock_counter' = clock_counter + 1]_vars

\* C4: a Start sets is_running, current_step = 0, tick_counter = 0 and the
\* direction increasing, and leaves step output 0 the active one.
C4_StartResets ==
    last_op = "start" =>
        /\ is_playing = TRUE
        /\ step_counter = 0
        /\ clock_counter = 0
        /\ pingpong_direction = TRUE
        /\ led = OnlyLed(0)
        /\ led13 = LOW

\* A Start after an earlier run: the mode was switched (only possible while
\* running) and ticks were read.
C4_Witness ==
    /\ last_op = "start"
    /\ play_mode = 2
    /\ step_pot_mapped = 5
    /\ lastButtonState = LOW

\* C5: a Stop sets is_running = false and deactivates every step output, and
\* a tick that arrives while stopped leaves current_step unchanged.
C5_StopHalts ==
    [][/\ last_op' = "stop" => (is_playing' = FALSE /\ led' = AllLedsLow)
       /\ (~is_playing /\ last_op' \in ClockOps) =>
              step_counter' = step_counter]_vars

\* A tick after a Stop: the mode is Reverse, so there was a run, and it is
\* over.
C5_Witness ==
    /\ ~is_playing
    /\ play_mode = 1
    /\ last_op \in ClockOps
    /\ step_counter = 3

\* C6: a tick gates open exactly when tick_counter mod division_factor = 0
\* for the factor read at that tick, and every tick adds one to
\* tick_counter, gated or not, running or not, whatever the divisor; with
\* factor 3 the ticks numbered 0,3,6,9 gate open and 1,2,4,5,7,8 do not.
C6_GateIsCounterModDivisor ==
    [][last_op' \in ClockOps =>
          \A sp \in ReadingsOfStepCount[step_pot_mapped'] :
              \A cp \in ClockPotReadings :
                  LET division_factor == DivisorOfReading[cp]
                      gated == last_op' # "clock_skip"
                  IN \/ /\ gated <=> (clock_counter % division_factor = 0)
                        /\ clock_counter' = clock_counter + 1
                        /\ (division_factor = 3 /\ clock_counter \in 0 .. 9)
                               => (gated <=> clock_counter \in {0, 3, 6, 9})
                     \/ ~message_clock(sp, cp)
      ]_vars

\* Ten ticks after a Start of which four gated open, the one numbered 9
\* among them: the course of a run with divisor 3.
C6_Witness ==
    /\ last_op = "clock_advance"
    /\ clock_counter = 10
    /\ run.open
    /\ Len(run.steps) = 4

\* C7: Ping-Pong with a constant step count n >= 2, from step 0 with the
\* direction increasing, yields 1,2,...,n-1,n-2,...,1,0,1,...; for n = 4
\* the first six steps are 1,2,3,2,1,0; no step is outside [0, n).
C7_PingPongBounce ==
    (run.open /\ play_mode = 2 /\ run.n >= 2) =>
        /\ \A k \in 1 .. Len(run.steps) :
               /\ run.steps[k] = Bounce(run.n, k)
               /\ run.steps[k] \in 0 .. (run.n - 1)
        /\ (run.n = 4 /\ Len(run.steps) >= 6) =>
               SubSeq(run.steps, 1, 6) = <<1, 2, 3, 2, 1, 0>>

C7_Witness ==
    /\ run.open
    /\ play_mode = 2
    /\ run.n = 4
    /\ run.steps = <<1, 2, 3, 2, 1, 0, 1>>

\* C8 (as stated): in Ping-Pong mode current_step holds each endpoint value
\* (0 and n-1) on two successive gated ticks, once approaching and once
\* departing.
C8_EndpointHeldTwice ==
    (run.open /\ play_mode = 2 /\ run.n >= 2) =>
        \A k \in 1 .. (Len(run.steps) - 1) :
            (/\ run.steps[k] \in {0, run.n - 1}
             /\ (k = 1 \/ run.steps[k - 1] # run.steps[k]))
                => run.steps[k + 1] = run.steps[k]

\* C8 (amended): in a Ping-Pong run from Start with a constant step count
\* n >= 2 each endpoint is held for one gated tick only: the step 0 left by
\* Start is left at the first gated tick and no two successive gated ticks
\* yield the same current_step.
C8_EndpointHeldOnce ==
    (run.open /\ play_mode = 2 /\ run.n >= 2) =>
        /\ Len(run.steps) >= 1 => run.steps[1] # 0
        /\ \A k \in 1 .. (Len(run.steps) - 1) :
               run.steps[k + 1] # run.steps[k]

C8_Witness ==
    /\ run.open
    /\ play_mode = 2
    /\ run.n = 3
    /\ run.steps = <<1, 2, 1, 0, 1>>

\* C9: in Reverse mode a gated tick while running sets current_step to
\* (current_step - 1 + n) mod n for the step count n it read, never a
\* negative value; with n = 4 from step 0 four gated ticks yield 3,2,1,0.
C9_ReverseStep ==
    [][/\ (last_op' = "clock_advance" /\ play_mode = 1) =>
              /\ step_counter' =
                     (step_counter - 1 + step_pot_mapped') % step_pot_mapped'
              /\ step_counter' >= 0
       /\ (run'.open /\ play_mode' = 1 /\ run'.n = 4) =>
              \A k \in 1 .. Len(run'.steps) :
                  run'.steps[k] = (4 - k) % 4]_vars

C9_Witness ==
    /\ run.open
    /\ play_mode = 1
    /\ run.n = 4
    /\ run.steps = <<3, 2, 1, 0>>

\* C10: in Forward mode a gated tick while running sets current_step to
\* (current_step + 1) mod n for the step count n it read; with n = 4 from
\* step 0 five gated ticks yield 1,2,3,0,1.
C10_ForwardStep ==
    [][/\ (last_op' = "clock_advance" /\ play_mode = 0) =>
              step_counter' = (step_counter + 1) % step_pot_mapped'
       /\ (run'.open /\ play_mode' = 0 /\ run'.n = 4) =>
              \A k \in 1 .. Len(run'.steps) : run'.steps[k] = k % 4]_vars

C10_Witness ==
    /\ run.open
    /\ play_mode = 0
    /\ run.n = 4
    /\ run.steps = <<1, 2, 3, 0, 1>>

PollOps == {"poll", "press_mode", "press_step"}
NotifyOps == {"clock_advance", "clock_notify", "start", "press_step"}
LedsOn == {i \in 0 .. (NUM_OF_LEDS - 1) : led[i] = HIGH}

\* C11: a press edge while not running sets current_step to
\* (current_step + 1) mod 8 whatever the active step count, leaves the
\* mode, tick_counter and is_running unchanged and leaves the new step the
\* active output.
C11_ManualStepModuloEight ==
    [][(lastButtonState = HIGH /\ lastButtonState' = LOW /\ ~is_playing) =>
          /\ step_counter' = (step_counter + 1) % 8
          /\ play_mode' = play_mode
          /\ clock_counter' = clock_counter
          /\ is_playing' = is_playing
          /\ led' = OnlyLed(step_counter')
          /\ led13' = LOW]_vars

\* A manual advance to a step above the step count the latest tick read.
C11_Witness ==
    /\ last_op = "press_step"
    /\ step_pot_mapped = 2
    /\ step_counter = 5

\* C12: a press edge while running moves the mode one place along
\* Forward -> Reverse -> PingPong -> Random -> Forward (four presses return
\* to the same mode), sets the direction increasing when the new mode is
\* PingPong and changes neither current_step, tick_counter nor the outputs.
C12_PressCyclesMode ==
    [][(lastButtonState = HIGH /\ lastButtonState' = LOW /\ is_playing) =>
          /\ play_mode' = <<1, 2, 3, 0>>[play_mode + 1]
          /\ NextMode(NextMode(NextMode(play_mode'))) = play_mode
          /\ play_mode' = 2 => pingpong_direction' = TRUE
          /\ step_counter' = step_counter
          /\ clock_counter' = clock_counter
          /\ led' = led
          /\ led13' = led13]_vars

\* The press that wraps Random round to Forward, with the step away from 0.
C12_Witness ==
    /\ last_op = "press_mode"
    /\ play_mode = 0
    /\ step_counter = 3

\* C13: the button poll acts exactly on a released-to-pressed transition: a
\* poll that finds the press still held, or finds the button released,
\* changes neither the mode nor the step nor the outputs.
C13_OneActionPerPress ==
    [][last_op' \in PollOps =>
          /\ (last_op' \in {"press_mode", "press_step"}) <=>
                 (lastButtonState = HIGH /\ lastButtonState' = LOW)
          /\ ~(lastButtonState = HIGH /\ lastButtonState' = LOW) =>
                 UNCHANGED <<step_counter, play_mode, pingpong_direction,
                             led, led13, clock_counter, is_playing>>]_vars

\* A poll that found the button still held after the press changed the mode.
C13_Witness ==
    /\ last_op = "poll"
    /\ lastButtonState = LOW
    /\ play_mode = 1

\* C14: after every notification exactly one step output is active, the one
\* at current_step, and the pulse indicator is off again; in every state at
\* most one step output is active and an active one is at current_step.
C14_OneActiveOutput ==
    /\ last_op \in NotifyOps => (LedsOn = {step_counter} /\ led13 = LOW)
    /\ Cardinality(LedsOn) <= 1
    /\ \A i \in LedsOn : i = step_counter

C14_Witness ==
    /\ last_op = "clock_advance"
    /\ step_counter = 5
    /\ LedsOn = {5}

\* C15: in Random mode a gated tick while running can set current_step to
\* every value in [0, step_count), the current one included, and to no
\* value outside it (a reading of 1023 on the clock pot selects divisor 1,
\* which gates every tick).
C15_RandomAnyStepInRange ==
    (is_playing /\ play_mode = 3 /\ TickDelivered(clock_counter)) =>
        \A sp \in StepPotReadings :
            \A r \in -1 .. NUM_OF_LEDS :
                (ENABLED (message_clock(sp, AnalogMax) /\ step_counter' = r))
                    <=> (0 <= r /\ r < StepPotMapped(sp))

\* A random step at the top of the full range.
C15_Witness ==
    /\ last_op = "clock_advance"
    /\ play_mode = 3
    /\ step_pot_mapped = 8
    /\ step_counter = 7

\* ------------------------------------------------- the analog mappings alone
\* The first lines of message_clock applied to every raw reading 0..1023 of
\* one pot: the step pot on A1, the clock pot on A0.
ReadStepPot(step_pot_value) ==
    /\ reading' = [pin |-> "A1", value |-> step_pot_value,
                   mapped |-> StepPotMapped(step_pot_value)]
    /\ UNCHANGED <<clock_counter, step_counter, play_mode, is_playing,
                   pingpong_direction, lastButtonState, led, led13,
                   step_pot_mapped, last_op, run, orbit>>

ReadClockPot(clock_pot_value) ==
    /\ reading' = [pin |-> "A0", value |-> clock_pot_value,
                   mapped |-> ClockPotMapped(clock_pot_value)]
    /\ UNCHANGED <<clock_counter, step_counter, play_mode, is_playing,
                   pingpong_direction, lastButtonState, led, led13,
                   step_pot_mapped, last_op, run, orbit>>

NextAnalog ==
    \/ \E v \in 0 .. AnalogMax : ReadStepPot(v)
    \/ \E v \in 0 .. AnalogMax : ReadClockPot(v)

SpecAnalog == Init /\ [][NextAnalog]_vars

\* C16: for every raw reading in [0,1023] the step count lies in [1,8] and
\* the division index in [0,4]; the division mapping is inverted and
\* monotone (a higher reading never selects a larger divisor), reading 0
\* selects divisor 24 and reading 1023 divisor 1; the step count is 1 at
\* reading 0 and 8 at reading 1023.
C16_AnalogMappings ==
    /\ reading.pin = "A1" =>
           /\ reading.mapped \in 1 .. 8
           /\ reading.value = 0 => reading.mapped = 1
           /\ reading.value = 1023 => reading.mapped = 8
    /\ reading.pin = "A0" =>
           /\ reading.mapped \in 0 .. 4
           /\ reading.value = 0 => clock_division[reading.mapped + 1] = 24
           /\ reading.value = 1023 => clock_division[reading.mapped + 1] = 1
           /\ \A higher \in reading.value .. 1023 :
                  ClockPotSelected(higher) <= clock_division[reading.mapped + 1]

\* The lowest reading that leaves the largest divisor: index 3, divisor 12.
C16_Witness ==
    /\ reading.pin = "A0"
    /\ reading.value = 256
    /\ reading.mapped = 3

\* ------------------------------------------- clock_counter at the top of int
\* The state WrapLead ticks before clock_counter reaches the largest int: a
\* Start in Forward mode followed by MaxInt - WrapLead ticks with the step
\* pot at 0 (one step, so step 0 stays the active one); the latest of these
\* ticks gated or not, as the divisor read had it.
InitWrap ==
    /\ clock_counter = MaxInt - WrapLead
    /\ step_counter = 0
    /\ play_mode = 0
    /\ is_playing = TRUE
    /\ pingpong_direction = TRUE
    /\ lastButtonState = HIGH
    /\ led = light_up_current_step(0).led
    /\ led13 = LOW
    /\ step_pot_mapped = 1
    /\ last_op \in {"clock_advance", "clock_skip"}
    /\ run = ClosedRun
    /\ reading = NoReading
    /\ orbit = NoOrbit

NextWrap == Tick /\ Unobserved

SpecWrap == InitWrap /\ [][NextWrap]_vars

\* Number of the tick that finds the counter at c, counted from the Start
\* (the first 2^IntBits ticks).
TickNumber(c) == IF c < 0 THEN c + 2 ^ IntBits ELSE c

\* C17: with a fixed division factor d and no Start in between, the gate
\* opens exactly every d ticks however long the run: the ticks that gate
\* are those whose number since the Start is a multiple of the divisor
\* read, also after clock_counter has passed the largest value of its
\* 16-bit int and wrapped around.
C17_PhaseSurvivesWraparound ==
    [][last_op' \in ClockOps =>
          \A sp \in ReadingsOfStepCount[step_pot_mapped'] :
              \A cp \in ClockPotReadings :
                  \/ (last_op' # "clock_skip") <=>
                         (TickNumber(clock_counter) % DivisorOfReading[cp] = 0)
                  \/ ~message_clock(sp, cp)
      ]_vars

\* C18: the first tick after a Start gates open whatever the divisor read,
\* tick_counter being 0; in Forward mode with a step count of at least 2 it
\* replaces the step 0 announced by the Start by step 1 at once.
C18_FirstTickAfterStartGates ==
    [][(last_op = "start" /\ last_op' \in ClockOps) =>
          /\ last_op' = "clock_advance"
          /\ clock_counter = 0
          /\ (play_mode = 0 /\ step_pot_mapped' >= 2) =>
                 (step_counter = 0 /\ step_counter' = 1 /\ led' = OnlyLed(1))
      ]_vars

\* The state after the first tick of a Forward run: step 1 after one tick.
C18_Witness ==
    /\ last_op = "clock_advance"
    /\ play_mode = 0
    /\ clock_counter = 1
    /\ run.open
    /\ run.steps = <<1>>

\* C19: in every reachable state 0 <= current_step < 8, so a notification
\* always addresses an existing step output and never lights none.
C19_StepWithinHardwareRange ==
    /\ step_counter \in 0 .. 7
    /\ last_op \in NotifyOps => \E i \in 0 .. 7 : led[i] = HIGH

\* The last step output lit by manual advances past the active step count.
C19_Witness ==
    /\ last_op = "press_step"
    /\ step_counter = 7
    /\ led[7] = HIGH
    /\ step_pot_mapped = 1

\* ------------------------------------------------ a run with ticks to come
\* Any state of a run whose clock_counter is 0 (at the Start, or 2^IntBits
\* ticks later): a mode other than Random, any step 0..7 (the step count may
\* have shrunk below it), either direction, the step count n last read.
InitOrbit ==
    /\ clock_counter = 0
    /\ step_counter \in 0 .. (NUM_OF_LEDS - 1)
    /\ play_mode \in 0 .. 2
    /\ is_playing = TRUE
    /\ pingpong_direction \in BOOLEAN
    /\ lastButtonState = HIGH
    /\ led = light_up_current_step(step_counter).led
    /\ led13 = LOW
    /\ step_pot_mapped \in 1 .. NUM_OF_LEDS
    /\ last_op = "clock_advance"
    /\ run = ClosedRun
    /\ reading = NoReading
    /\ orbit = [n |-> step_pot_mapped, seen |-> {}]

\* A tick that reads the same step count again and gates open; orbit.seen
\* collects the steps it makes active.
OrbitTick ==
    /\ \E sp \in StepPotReadings, cp \in ClockPotReadings :
           /\ StepPotMapped(sp) = orbit.n
           /\ message_clock(sp, cp)
    /\ last_op' = "clock_advance"
    /\ orbit' = [orbit EXCEPT !.seen = @ \cup {step_counter'}]
    /\ UNCHANGED reading

\* Ticks keep arriving: no Stop, Start or press, and the gate keeps opening.
SpecOrbit == InitOrbit /\ [][OrbitTick]_vars /\ WF_vars(OrbitTick)

\* C20: while running in Forward, Reverse or PingPong mode with a constant
\* step count n and gated ticks that keep arriving, every step in [0, n)
\* becomes the active step, from any state of a run (also one with the step
\* at or above n, or with the direction pointing out of the range); every
\* state reached is such a state again, so it does so infinitely often.
C20_EveryStepBecomesActive ==
    <>(orbit.seen = 0 .. (orbit.n - 1))

\* A full Ping-Pong pass up and down over eight steps.
C20_Witness ==
    /\ play_mode = 2
    /\ orbit.n = 8
    /\ orbit.seen = 0 .. 7
    /\ step_counter = 0
    /\ clock_counter = 14
====
